---- MODULE Spec2Model ----
(***************************************************************************)
(* A model of the MySQL -> PostgreSQL table-copy engine of                 *)
(* migrate-data.py (ordering, destructive reset, batched row transfer,     *)
(* sequence update, main) and of the table discovery of                    *)
(* verify-migration.py.                                                    *)
(*                                                                         *)
(* The destination is a PostgreSQL session driven through psycopg2 with    *)
(* autocommit off: the first statement opens a transaction, an SQL error   *)
(* puts the transaction in the failed state in which every statement is    *)
(* refused until ROLLBACK, and COMMIT of a failed transaction rolls back.  *)
(***************************************************************************)
EXTENDS Integers, Sequences, FiniteSets, TLC

(* ------------------------------ bounds --------------------------------- *)

\* Most source rows a table holds.
MaxRows == 4
\* Most tables SHOW TABLES lists in the ordering specification.
MaxTables == 3
\* Most injected faults (SQL errors, lost connections) in one behaviour.
MaxFaults == 1
\* Most rows handed to one call of convert_data_types.
MaxConvertRows == 2

(* --------------------------- configuration ----------------------------- *)

\* Relation names of the model: three entries of PRIORITY_TABLES_ORDER, two
\* tables the priority list does not name, and the skipped view.
Names ==
  {"x_portal_user", "x_user", "x_group", "x_portal_user_role", "x_trx_log",
   "vx_principal"}

\* config.py PRIORITY_TABLES_ORDER, cut to the model's names (list order kept).
PRIORITY_TABLES_ORDER == <<"x_portal_user", "x_user", "x_group">>

\* config.py MIGRATION_CONFIG['batch_size'], scaled down from 1000.
batch_size == 2

\* Row identifiers: row k of a source table is the k-th row its SELECT returns.
RowIds == 1..MaxRows

\* The characters (code points) of each name: Python compares str by them.
Spelling ==
  [n \in Names |->
     CASE n = "vx_principal" ->
            <<118, 120, 95, 112, 114, 105, 110, 99, 105, 112, 97, 108>>
       [] n = "x_group" -> <<120, 95, 103, 114, 111, 117, 112>>
       [] n = "x_portal_user" ->
            <<120, 95, 112, 111, 114, 116, 97, 108, 95, 117, 115, 101, 114>>
       [] n = "x_portal_user_role" ->
            <<120, 95, 112, 111, 114, 116, 97, 108, 95, 117, 115, 101, 114,
              95, 114, 111, 108, 101>>
       [] n = "x_trx_log" -> <<120, 95, 116, 114, 120, 95, 108, 111, 103>>
       [] OTHER -> <<120, 95, 117, 115, 101, 114>>]

(* --------------------------- sequence helpers -------------------------- *)

Range(s) == {s[i] : i \in 1..Len(s)}

Contains(s, x) == \E i \in 1..Len(s) : s[i] = x

\* Python list(reversed(s)).
Reversed(s) == [i \in 1..Len(s) |-> s[Len(s) + 1 - i]]

\* Python list.remove(x): drops the first occurrence of x.
ListRemove(s, x) ==
  LET i == CHOOSE k \in 1..Len(s) : s[k] = x /\ \A j \in 1..(k - 1) : s[j] # x
  IN  [k \in 1..(Len(s) - 1) |-> IF k < i THEN s[k] ELSE s[k + 1]]

RECURSIVE SeqLess(_, _, _)
\* Lexicographic comparison of two code-point sequences from position i on.
SeqLess(a, b, i) ==
  IF i > Len(a) THEN i <= Len(b)
  ELSE IF i > Len(b) THEN FALSE
  ELSE IF a[i] # b[i] THEN a[i] < b[i]
  ELSE SeqLess(a, b, i + 1)

\* Python str.__lt__.
StrLess(a, b) == SeqLess(Spelling[a], Spelling[b], 1)

RECURSIVE InsertSorted(_, _)
InsertSorted(s, x) ==
  IF s = <<>> THEN <<x>>
  ELSE IF StrLess(x, Head(s)) THEN <<x>> \o s
  ELSE <<Head(s)>> \o InsertSorted(Tail(s), x)

RECURSIVE ListSort(_)
\* Python list.sort() on a list of names (stable, ascending).
ListSort(s) ==
  IF s = <<>> THEN <<>>
  ELSE InsertSorted(ListSort(SubSeq(s, 1, Len(s) - 1)), s[Len(s)])

RECURSIVE Perms(_)
\* Every enumeration order of a finite set.
Perms(S) ==
  IF S = {} THEN {<<>>}
  ELSE UNION {{<<x>> \o p : p \in Perms(S \ {x})} : x \in S}

(* ------------------------------- state --------------------------------- *)

VARIABLES
  env,             \* the run's inputs: MIGRATION_CONFIG and the two schemas
  pc,              \* position of main()
  conn,            \* postgres_conn: "none", "open", "broken" or "closed"
  mysql_conn,      \* mysql_conn: "none", "open" or "closed"
  session_replication_role,  \* the destination session's setting
  txn,             \* its transaction: "idle", "intrans" or "failed"
  committed,       \* destination rows that are durable, per table and row
  pending,         \* destination rows as the open transaction sees them
  ti,              \* truncate_postgres_tables: index into tables_to_truncate
  ordered_tables,  \* result of get_mysql_tables_ordered / get_all_tables
  tbl,             \* main: index of the table being migrated
  bi,              \* migrate_table_data: offset i of the next batch
  insert_count,    \* migrate_table_data: insert_count
  total_migrated,  \* main: total_migrated
  si,              \* update_sequences: index into sequence_mappings
  updated_count,   \* update_sequences: updated_count
  seqVal,          \* the value of each table's sequence
  exit_code,       \* the process's exit status, -1 while it runs
  converted_rows,  \* convert_data_types: converted_rows
  verification_results,  \* verify-migration.py main: verification_results
  mismatch_report, \* generate_report: the lines under TABLES WITH MISMATCHES
  hist             \* history: what the run has done so far

vars ==
  <<env, pc, conn, mysql_conn, session_replication_role, txn, committed, pending, ti, ordered_tables, tbl, bi,
    insert_count, total_migrated, si, updated_count, seqVal, exit_code,
    converted_rows, verification_results, mismatch_report, hist>>

\* What only update_sequences and the end of main() write.
tailVars == <<si, updated_count, seqVal, exit_code>>

\* What no step of the migration's main path writes in this model: the
\* transfer treats rows as identifiers, their values are converted apart.
sideVars ==
  <<mysql_conn, session_replication_role, converted_rows, verification_results,
    mismatch_report>>

\* What only the conversion and the verification write.
reportVars == <<converted_rows, verification_results, mismatch_report>>

\* No destination row anywhere.
NoRows == [t \in Names |-> [r \in RowIds |-> 0]]

\* The history record at the start of a run.
NoHist ==
  [truncLog |-> <<>>, truncated_count |-> 0, absentSeen |-> {}, cleared |-> {},
   resetSteps |-> 0, resetFaults |-> 0, resetAborted |-> FALSE,
   reconnectFailed |-> FALSE,
   faults |-> 0, path |-> "none", probeFault |-> FALSE,
   call |-> [table |-> "none", state |-> "none", count |-> 0, before |-> NoRows,
             rowFailed |-> {}, attempted |-> {}, touched |-> FALSE,
             batchFailed |-> {}, faults |-> 0, txnAtStart |-> "idle",
             unacked |-> FALSE],
   loaded |-> {}, run |-> 1, firstClean |-> FALSE,
   firstCounts |-> [t \in Names |-> 0],
   rows |-> <<>>,
   seqStart |-> "none", seqBefore |-> [t \in Names |-> 0], seqFailed |-> {},
   setvals |-> {}]

(* ------------------- existence / introspection probes ------------------ *)

\* The transaction after a statement: a statement sent in a failed
\* transaction, or one that errors, leaves the transaction failed.
AfterStatement(st, fails) == IF st = "failed" \/ fails THEN "failed" ELSE "intrans"

\* A catalog query answers only when the transaction accepts statements and
\* the statement does not error; the probes turn any error into False.
ProbeAnswers(st, fails) == st # "failed" /\ ~fails

\* is_view: information_schema.views knows the name.
is_view(object_name, st, fails) ==
  ProbeAnswers(st, fails) /\ env.pg_kind[object_name] = "view"

\* table_exists: information_schema.tables knows the name (it lists base
\* tables and views alike).
table_exists(table_name, st, fails) ==
  ProbeAnswers(st, fails) /\ env.pg_kind[table_name] \in {"table", "view"}

(* ------------------------ table ordering resolver ---------------------- *)

\* The probe faults of one resolution: none, or the probe of the i-th
\* listed table that errors.
ProbeFaults(all_tables) ==
  {<<0, "none">>} \cup ((1..Len(all_tables)) \X {"is_view", "table_exists"})

\* get_mysql_tables_ordered's skip test.
InSkipTables(table) == table \in env.skip_tables

RECURSIVE FilterValid(_, _, _, _, _, _)
\* The filter loop of get_mysql_tables_ordered (checkExists) and of
\* get_all_tables (~checkExists) from table i on: the valid tables in the
\* order met, and the transaction the probes leave.
FilterValid(all_tables, i, valid_tables, st, failAt, checkExists) ==
  IF i > Len(all_tables) THEN [valid |-> valid_tables, txn |-> st]
  ELSE
    LET table == all_tables[i]
        vFails == failAt = <<i, "is_view">>
        st1 == AfterStatement(st, vFails)
        eFails == failAt = <<i, "table_exists">>
        st2 == AfterStatement(st1, eFails)
    IN  IF InSkipTables(table)
          THEN FilterValid(all_tables, i + 1, valid_tables, st, failAt, checkExists)
        ELSE IF is_view(table, st, vFails)
          THEN FilterValid(all_tables, i + 1, valid_tables, st1, failAt, checkExists)
        ELSE IF ~checkExists
          THEN FilterValid(all_tables, i + 1, Append(valid_tables, table), st1,
                           failAt, checkExists)
        ELSE IF ~table_exists(table, st1, eFails)
          THEN FilterValid(all_tables, i + 1, valid_tables, st2, failAt, checkExists)
        ELSE FilterValid(all_tables, i + 1, Append(valid_tables, table), st2,
                         failAt, checkExists)

RECURSIVE PriorityWalkNoRemove(_, _, _)
PriorityWalkNoRemove(i, ordered, valid_tables) ==
  IF i > Len(PRIORITY_TABLES_ORDER) THEN [ordered |-> ordered, rest |-> valid_tables]
  ELSE IF Contains(valid_tables, PRIORITY_TABLES_ORDER[i])
    THEN PriorityWalkNoRemove(i + 1, Append(ordered, PRIORITY_TABLES_ORDER[i]),
                              valid_tables)
  ELSE PriorityWalkNoRemove(i + 1, ordered, valid_tables)

RECURSIVE PriorityWalk(_, _, _)
\* "1. Add tables in priority order": from priority entry i on, move each
\* entry found in valid_tables to the output.
PriorityWalk(i, ordered, valid_tables) ==
  IF i > Len(PRIORITY_TABLES_ORDER) THEN [ordered |-> ordered, rest |-> valid_tables]
  ELSE IF Contains(valid_tables, PRIORITY_TABLES_ORDER[i])
    THEN PriorityWalk(i + 1, Append(ordered, PRIORITY_TABLES_ORDER[i]),
                      ListRemove(valid_tables, PRIORITY_TABLES_ORDER[i]))
  ELSE PriorityWalk(i + 1, ordered, valid_tables)

RemainingUnsorted(valid_tables) == valid_tables

\* "2. Add remaining tables in alphabetical order".
Remaining(valid_tables) == ListSort(valid_tables)

OrderTablesAsListed(valid_tables) == valid_tables

\* The ordering both scripts apply to the filtered list.
OrderTables(valid_tables) ==
  LET w == PriorityWalk(1, <<>>, valid_tables)
  IN  w.ordered \o Remaining(w.rest)

(* ------------------------------- inputs -------------------------------- *)

Kinds == {"absent", "table", "view"}

\* What the ordering never reads, fixed.
EnvDefaults ==
  [truncate_before_insert |-> TRUE,
   src_rows |-> [t \in Names |-> 0],
   bad_rows |-> [t \in Names |-> {}],
   keyed |-> Names,
   fk |-> {},
   pg_seqs |-> Names]

\* The names the destination may hold as a view.
ViewCandidates == {"vx_principal", "x_group"}

\* The destination kinds a relation of U may have: every relation exists
\* somewhere, so one that the source (S) lacks is on the destination.
KindsOf(n, S) ==
  (IF n \in S THEN {"absent"} ELSE {})
    \cup {"table"} \cup (IF n \in ViewCandidates THEN {"view"} ELSE {})

\* SHOW TABLES lists the source's tables in ascending order of their names;
\* the descending listing stands for a server that collates otherwise.
Listings(S) ==
  LET sorted == ListSort(CHOOSE p \in Perms(S) : TRUE)
  IN  {sorted, Reversed(sorted)}

\* The inputs of an ordering: at most MaxTables relations exist at all, each
\* on the source, on the destination (as a table or a view) or on both.
OrderEnvs ==
  UNION {
    UNION {
      { [mysql_tables |-> m,
         pg_kind |-> [n \in Names |-> IF n \in U THEN kk[n] ELSE "absent"],
         skip_tables |-> {"vx_principal"},
         skip_missing_tables |-> sm] @@ EnvDefaults :
          m \in Listings(S), sm \in BOOLEAN,
          kk \in { k \in [U -> Kinds] : \A n \in U : k[n] \in KindsOf(n, S) } }
      : S \in SUBSET U }
    : U \in { u \in SUBSET Names : Cardinality(u) <= MaxTables } }

\* The state main() is in once both connections are open, the destination's
\* sequences standing at the given values.
ConnectedAt(e, startPc, sequences) ==
  /\ env = e
  /\ pc = startPc
  /\ conn = "open"
  /\ mysql_conn = "open"
  /\ session_replication_role = "origin"
  /\ ti = 1
  /\ tbl = 1
  /\ bi = 0
  /\ insert_count = 0
  /\ total_migrated = 0
  /\ si = 1
  /\ updated_count = 0
  /\ seqVal = sequences
  /\ exit_code = -1
  /\ converted_rows = <<>>
  /\ verification_results = <<>>
  /\ mismatch_report = <<>>
  /\ hist = NoHist

\* The same with every sequence at its start value.
Connected(e, startPc) == ConnectedAt(e, startPc, [t \in Names |-> 1])

(* ----------------------------- main: order ----------------------------- *)

\* Where main() goes once the table at index k is the next to migrate.
TransferPc(k, tables) == IF k > Len(tables) THEN "sequences" ELSE "migrate_read"

\* main(): mysql_tables = get_mysql_tables_ordered(mysql_conn, postgres_conn).
\* A probe on a connection that is not open raises out of the probe
\* (conn.cursor() is outside its try) and out of main's try.
GetMysqlTablesOrdered ==
  /\ pc = "order"
  /\ IF conn # "open" /\ \E i \in 1..Len(env.mysql_tables) :
                            ~InSkipTables(env.mysql_tables[i])
       THEN /\ pc' = "fatal"
            /\ hist' = [hist EXCEPT !.path = "escaped"]
            /\ UNCHANGED <<txn, ordered_tables>>
       ELSE \E failAt \in ProbeFaults(env.mysql_tables) :
              LET f == FilterValid(env.mysql_tables, 1, <<>>, txn, failAt, TRUE)
                  faulted == failAt[1] # 0
              IN  /\ faulted => hist.faults < MaxFaults
                  /\ ordered_tables' = OrderTables(f.valid)
                  /\ txn' = f.txn
                  /\ hist' = [hist EXCEPT !.faults = @ + (IF faulted THEN 1 ELSE 0),
                                          !.path = "migrate",
                                          !.probeFault = faulted]
                  /\ pc' = TransferPc(1, ordered_tables')
  /\ UNCHANGED <<env, conn, committed, pending, ti, tbl, bi, insert_count,
                 total_migrated>>
  /\ UNCHANGED tailVars
  /\ UNCHANGED sideVars

(* ------------------------ verification: order -------------------------- *)

\* The base tables of the destination (table_type = 'BASE TABLE').
PostgresBaseTables == {n \in Names : env.pg_kind[n] = "table"}

\* verify-migration.py get_all_tables: the union of both table lists as a
\* Python set (enumerated in any order), filtered and ordered. An error while
\* the lists are fetched is logged and leaves the destination list empty.
GetAllTables ==
  /\ pc = "verify_order"
  /\ conn = "open"
  /\ \E listFails \in BOOLEAN :
       \E all_tables \in Perms(Range(env.mysql_tables)
                               \cup (IF listFails THEN {} ELSE PostgresBaseTables)) :
         LET st == AfterStatement(txn, listFails)
             f == FilterValid(all_tables, 1, <<>>, st, <<0, "none">>, FALSE)
         IN  /\ listFails => hist.faults < MaxFaults
             /\ ordered_tables' = OrderTables(f.valid)
             /\ txn' = f.txn
             /\ hist' = [hist EXCEPT !.faults = @ + (IF listFails THEN 1 ELSE 0),
                                     !.path = "verify",
                                     !.probeFault = listFails]
             /\ pc' = "verify_tables"
  /\ UNCHANGED <<env, conn, committed, pending, ti, tbl, bi, insert_count,
                 total_migrated>>
  /\ UNCHANGED tailVars
  /\ UNCHANGED sideVars

(* --------------------- specification: the ordering --------------------- *)

InitOrder ==
  /\ \E e \in OrderEnvs, p \in {"order", "verify_order"} : Connected(e, p)
  /\ txn = "idle"
  /\ ordered_tables = <<>>
  /\ committed = NoRows
  /\ pending = NoRows

NextOrder ==
  \/ GetMysqlTablesOrdered
  \/ GetAllTables

SpecOrder == InitOrder /\ [][NextOrder]_vars

(* --------------------------- destructive reset ------------------------- *)

tables_not_reversed == PRIORITY_TABLES_ORDER

\* truncate_postgres_tables: tables_to_truncate.
tables_to_truncate == Reversed(PRIORITY_TABLES_ORDER)

RECURSIVE CascadeFrom(_)
\* The tables TRUNCATE ... CASCADE empties: the given ones and every table
\* that references one of them through a foreign key.
CascadeFrom(S) ==
  LET more == S \cup {c \in Names : \E q \in S : <<c, q>> \in env.fk}
  IN  IF more = S THEN S ELSE CascadeFrom(more)

\* The rows after TRUNCATE TABLE table_name CASCADE.
TruncateCascade(rows, table_name) ==
  [n \in Names |->
     IF n \in CascadeFrom({table_name}) THEN [r \in RowIds |-> 0] ELSE rows[n]]

\* What can go wrong in one table's step: an SQL error or the loss of the
\* connection in the existence probe, an SQL error in one of the three
\* statements, the loss of the connection at the commit.
TruncateFaults ==
  {"none", "probe_error", "probe_lost", "set_replica_error", "truncate_error",
   "set_origin_error", "commit_lost"}

\* The step's course up to its commit or its first exception:
\*   "skipped"  the existence check answered False (continue),
\*   "done"     the clear was committed,
\*   "sql"      a statement raised and the connection is still usable,
\*   "lost"     the connection is gone (cursor(), a statement or the commit raised).
TruncateCourse(table_name, fault) ==
  IF conn # "open" THEN "lost"
  ELSE IF fault = "probe_lost" THEN "skipped"
  ELSE IF ~table_exists(table_name, txn, fault = "probe_error") THEN "skipped"
  ELSE IF fault = "set_replica_error" THEN "sql"
  ELSE IF fault = "truncate_error" \/ env.pg_kind[table_name] = "view" THEN "sql"
  ELSE IF fault = "set_origin_error" THEN "sql"
  ELSE IF fault = "commit_lost" THEN "lost"
  ELSE "done"

\* Whether the step got as far as sending TRUNCATE.
TruncateIssued(table_name, fault) ==
  /\ TruncateCourse(table_name, fault) # "skipped"
  /\ conn = "open"
  /\ fault # "set_replica_error"

\* Whether truncated_count was incremented (TRUNCATE itself did not raise).
TruncateCounted(table_name, fault) ==
  /\ TruncateIssued(table_name, fault)
  /\ fault # "truncate_error"
  /\ env.pg_kind[table_name] # "view"

\* A fault is injected only into a statement the step reaches.
TruncateFaultReachable(table_name, fault) ==
  \/ fault = "none"
  \/ fault \in {"probe_error", "probe_lost"} /\ conn = "open"
  \/ /\ fault = "set_replica_error"
     /\ conn = "open"
     /\ table_exists(table_name, txn, FALSE)
  \/ /\ fault \in {"truncate_error", "set_origin_error", "commit_lost"}
     /\ conn = "open"
     /\ table_exists(table_name, txn, FALSE)
     /\ env.pg_kind[table_name] = "table"

\* The setting the step's statements have reached when the step commits or
\* raises: 'replica' from the first SET until the second SET has run.
RoleReached(course, fault, before) ==
  IF course = "sql" /\ fault # "set_replica_error" THEN "replica"
  ELSE IF course = "lost" /\ fault = "commit_lost" THEN "origin"
  ELSE IF course = "done" THEN "origin"
  ELSE before

RoleKeptByRollback(before, reached) == reached

\* ROLLBACK undoes a SET issued in the transaction it ends: the setting is
\* again what it was when the transaction began.
RoleAfterRollback(before, reached) == before

\* The session's setting when the step is over: the committed one after
\* the commit, the one ROLLBACK restores after an SQL error, a new
\* session's default after the reconnect.
RoleAfterStep(course, fault, before) ==
  IF course = "done" THEN RoleReached(course, fault, before)
  ELSE IF course = "sql"
    THEN RoleAfterRollback(before, RoleReached(course, fault, before))
  ELSE IF course = "lost" THEN "origin"
  ELSE before

RecoverAbortsOnSqlError(course, reconnects) == course = "lost" \/ course = "sql"

\* The except branch ends the pass only when the connection is gone and
\* psycopg2.connect raises in turn: nothing guards the reconnect.
RecoverAborts(course, reconnects) == course = "lost" /\ ~reconnects

\* One iteration of the loop of truncate_postgres_tables, with its except and
\* finally branches; after the last table the function returns to main.
TruncateStep ==
  /\ pc = "truncate"
  /\ ti <= Len(tables_to_truncate)
  /\ \E fault \in TruncateFaults, reconnects \in BOOLEAN :
       LET table_name == tables_to_truncate[ti]
           course == TruncateCourse(table_name, fault)
           aborts == RecoverAborts(course, reconnects)
       IN  /\ fault # "none" => hist.faults < MaxFaults
           /\ TruncateFaultReachable(table_name, fault)
           /\ (course # "lost") => reconnects
           /\ conn' = IF aborts THEN "closed"
                      ELSE IF course = "skipped" /\ fault = "probe_lost" THEN "broken"
                      ELSE "open"
           /\ txn' = IF course = "skipped" /\ fault # "probe_lost"
                       THEN AfterStatement(txn, fault = "probe_error")
                     ELSE "idle"
           /\ committed' = IF course = "done"
                             THEN TruncateCascade(pending, table_name)
                           ELSE committed
           /\ pending' = IF course = "skipped" /\ fault # "probe_lost" THEN pending
                         ELSE committed'
           /\ hist' = [hist EXCEPT
                 !.faults = @ + (IF fault = "none" THEN 0 ELSE 1),
                 !.resetFaults = @ + (IF fault = "none" THEN 0 ELSE 1),
                 !.resetSteps = @ + 1,
                 !.truncLog = IF TruncateIssued(table_name, fault)
                                THEN Append(@, table_name) ELSE @,
                 !.truncated_count = @ + (IF TruncateCounted(table_name, fault)
                                            THEN 1 ELSE 0),
                 !.absentSeen = IF course = "skipped" THEN @ \cup {table_name} ELSE @,
                 !.cleared = IF course = "done"
                               THEN @ \cup CascadeFrom({table_name}) ELSE @,
                 !.resetAborted = aborts,
                 !.reconnectFailed = (course = "lost" /\ ~reconnects)]
           /\ session_replication_role' =
                RoleAfterStep(course, fault, session_replication_role)
           /\ ti' = ti + 1
           /\ pc' = IF aborts THEN "fatal"
                    ELSE IF ti' > Len(tables_to_truncate) THEN "order"
                    ELSE "truncate"
  /\ UNCHANGED <<env, ordered_tables, tbl, bi, insert_count, total_migrated>>
  /\ UNCHANGED tailVars
  /\ UNCHANGED mysql_conn
  /\ UNCHANGED reportVars

(* --------------------------- row transfer engine ----------------------- *)

\* The table main() is migrating.
CurrentTable == ordered_tables[tbl]

\* The rows SELECT * returns for a table, as row identifiers, in order.
SourceRows(table_name) == [k \in 1..env.src_rows[table_name] |-> k]

\* Python converted_rows[i:i + batch_size] for the offset i.
Batch(rows, i) == SubSeq(rows, i + 1, IF i + batch_size < Len(rows) THEN i + batch_size ELSE Len(rows))

\* The number of rows a table holds.
RowCount(rows, table_name) ==
  LET RECURSIVE Sum(_)
      Sum(k) == IF k = 0 THEN 0 ELSE rows[table_name][k] + Sum(k - 1)
  IN  Sum(MaxRows)

\* The destination refuses a row that violates a constraint of its own, or,
\* in a table with a unique key, a row that is already there.
InsertFails(table_name, r, rows) ==
  \/ r \in env.bad_rows[table_name]
  \/ table_name \in env.keyed /\ rows[table_name][r] > 0

\* The rows after INSERT of row r.
Inserted(rows, table_name, r) == [rows EXCEPT ![table_name][r] = @ + 1]

RECURSIVE InsertAll(_, _, _)
\* The rows after every row of the batch was inserted.
InsertAll(rows, table_name, batch) ==
  IF batch = <<>> THEN rows
  ELSE InsertAll(Inserted(rows, table_name, Head(batch)), table_name, Tail(batch))

\* executemany raises when the transaction is failed, when the statement
\* errors for a reason of its own, or at the first row the destination refuses.
ExecuteManyFails(table_name, batch, rows, st, fault) ==
  \/ st = "failed"
  \/ fault = "batch_error"
  \/ \E k \in 1..Len(batch) : InsertFails(table_name, batch[k], rows)

RECURSIVE RowByRow(_, _, _)
\* The fallback loop "for single_row in batch": each row is inserted on its
\* own; one that raises is logged and skipped. acc holds the rows the
\* transaction sees, its state, the rows counted and the rows that raised.
RowByRow(table_name, batch, acc) ==
  IF batch = <<>> THEN acc
  ELSE
    LET r == Head(batch)
        raises == acc.txn = "failed" \/ InsertFails(table_name, r, acc.rows)
    IN  RowByRow(table_name, Tail(batch),
          IF raises
            THEN [acc EXCEPT !.txn = "failed", !.failed = @ \cup {r}]
          ELSE [acc EXCEPT !.txn = "intrans",
                           !.rows = Inserted(@, table_name, r),
                           !.count = @ + 1])

RolledBackEverything == [rows |-> NoRows, txn |-> "idle"]

\* postgres_conn.rollback() on an open connection.
RolledBack == [rows |-> committed, txn |-> "idle"]

\* COMMIT makes the transaction's rows durable, unless the transaction is
\* failed: then the server answers ROLLBACK and nothing is kept.
CommitResult(rows, st) == IF st = "failed" THEN committed ELSE rows

ReturnZeroNoRollback(call, nfaults) ==
  /\ UNCHANGED <<committed, pending, txn, total_migrated, bi, insert_count>>
  /\ hist' = [hist EXCEPT !.call = [call EXCEPT !.state = "error", !.count = 0,
                                                !.faults = @ + nfaults],
                          !.faults = @ + nfaults]
  /\ tbl' = tbl + 1
  /\ pc' = TransferPc(tbl', ordered_tables)

\* The except branch of migrate_table_data: rollback (its own errors
\* swallowed), return 0.
ReturnZero(call, nfaults) ==
  /\ committed' = committed
  /\ pending' = committed
  /\ txn' = "idle"
  /\ hist' = [hist EXCEPT !.call = [call EXCEPT !.state = "error", !.count = 0,
                                                !.touched = TRUE,
                                                !.faults = @ + nfaults],
                          !.faults = @ + nfaults]
  /\ tbl' = tbl + 1
  /\ pc' = TransferPc(tbl', ordered_tables)
  /\ UNCHANGED <<total_migrated, bi, insert_count>>

NeverShortCircuit(rows) == FALSE

\* "if not rows": the table is empty.
EmptyShortCircuit(rows) == Len(rows) = 0

\* migrate_table_data up to the batch loop: read the source, return 0 for an
\* empty table, list the columns, open the destination cursor. The source may
\* raise in either query; cursor() raises on a connection that is not open.
MigrateRead ==
  /\ pc = "migrate_read"
  /\ tbl <= Len(ordered_tables)
  /\ \E fault \in {"none", "read_error"} :
       LET table_name == CurrentTable
           rows == SourceRows(table_name)
           fresh == [table |-> table_name, state |-> "running", count |-> 0,
                     before |-> committed, rowFailed |-> {}, attempted |-> {},
                     touched |-> FALSE, batchFailed |-> {}, faults |-> 0,
                     txnAtStart |-> txn, unacked |-> FALSE]
       IN  /\ fault # "none" => hist.faults < MaxFaults
           /\ IF fault = "read_error"
                THEN /\ ReturnZero(fresh, 1)
                     /\ UNCHANGED conn
              ELSE IF EmptyShortCircuit(rows)
                THEN /\ hist' = [hist EXCEPT !.call = [fresh EXCEPT !.state = "empty"]]
                     /\ tbl' = tbl + 1
                     /\ pc' = TransferPc(tbl', ordered_tables)
                     /\ UNCHANGED <<conn, txn, committed, pending, bi, insert_count,
                                    total_migrated>>
              ELSE IF conn # "open"
                THEN /\ ReturnZero(fresh, 0)
                     /\ UNCHANGED conn
              ELSE /\ hist' = [hist EXCEPT !.call = [fresh EXCEPT !.touched = TRUE]]
                   /\ bi' = 0
                   /\ insert_count' = 0
                   /\ pc' = "migrate_batch"
                   /\ UNCHANGED <<conn, txn, committed, pending, tbl, total_migrated>>
  /\ UNCHANGED <<env, ti, ordered_tables>>
  /\ UNCHANGED tailVars
  /\ UNCHANGED sideVars

\* What can go wrong in a batch beyond the rows themselves: an error of the
\* statement (a lock timeout, a deadlock), the loss of the connection.
BatchFaults == {"none", "batch_error", "batch_lost"}

\* One iteration of "for i in range(0, len(converted_rows), batch_size)": the
\* multi-row insert and, when it raises, the rollback and the row-by-row replay.
MigrateBatch ==
  /\ pc = "migrate_batch"
  /\ \E fault \in BatchFaults :
       LET table_name == CurrentTable
           rows == SourceRows(table_name)
           batch == Batch(rows, bi)
           fails == ExecuteManyFails(table_name, batch, pending, txn, fault)
           replay == RowByRow(table_name, batch,
                       [rows |-> RolledBack.rows, txn |-> RolledBack.txn,
                        count |-> insert_count, failed |-> {}])
       IN  /\ fault # "none" => hist.faults < MaxFaults
           /\ IF fault = "batch_lost"
                THEN /\ conn' = "broken"
                     /\ ReturnZero(hist.call, 1)
                ELSE /\ conn' = conn
                     /\ committed' = committed
                     /\ pending' = IF fails THEN replay.rows
                                   ELSE InsertAll(pending, table_name, batch)
                     /\ txn' = IF fails THEN replay.txn ELSE "intrans"
                     /\ insert_count' = IF fails THEN replay.count
                                        ELSE insert_count + Len(batch)
                     /\ bi' = bi + batch_size
                     /\ pc' = IF bi' < Len(rows) THEN "migrate_batch"
                              ELSE "migrate_commit"
                     /\ hist' = [hist EXCEPT
                           !.call.rowFailed = IF fails THEN @ \cup replay.failed ELSE @,
                           !.call.attempted = @ \cup Range(batch),
                           !.call.batchFailed = IF fails THEN @ \cup {bi} ELSE @,
                           !.call.faults = @ + (IF fault = "none" THEN 0 ELSE 1),
                           !.faults = @ + (IF fault = "none" THEN 0 ELSE 1)]
                     /\ UNCHANGED <<tbl, total_migrated>>
  /\ UNCHANGED <<env, ti, ordered_tables>>
  /\ UNCHANGED tailVars
  /\ UNCHANGED sideVars

\* What can go wrong at the final commit: the connection is lost before the
\* server has the COMMIT, or after the server has applied it and before the
\* client has the answer; commit() raises in both cases.
CommitFaults == {"none", "commit_lost", "commit_unacked"}

\* The end of migrate_table_data: the single commit, "return insert_count",
\* and main's "total_migrated += migrated_count".
MigrateCommit ==
  /\ pc = "migrate_commit"
  /\ \E fault \in CommitFaults :
       /\ fault # "none" => hist.faults < MaxFaults
       /\ IF fault = "commit_lost"
            THEN /\ conn' = "broken"
                 /\ ReturnZero(hist.call, 1)
            ELSE IF fault = "commit_unacked"
            THEN /\ conn' = "broken"
                 /\ committed' = CommitResult(pending, txn)
                 /\ pending' = committed'
                 /\ txn' = "idle"
                 /\ hist' = [hist EXCEPT
                       !.call = [@ EXCEPT !.state = "error", !.count = 0,
                                          !.faults = @ + 1, !.unacked = TRUE],
                       !.faults = @ + 1]
                 /\ tbl' = tbl + 1
                 /\ pc' = TransferPc(tbl', ordered_tables)
                 /\ UNCHANGED <<total_migrated, bi, insert_count>>
            ELSE /\ conn' = conn
                 /\ committed' = CommitResult(pending, txn)
                 /\ pending' = committed'
                 /\ txn' = "idle"
                 /\ total_migrated' = total_migrated + insert_count
                 /\ hist' = [hist EXCEPT !.call.state = "returned",
                                         !.call.count = insert_count,
                                         !.loaded = @ \cup {CurrentTable}]
                 /\ tbl' = tbl + 1
                 /\ pc' = TransferPc(tbl', ordered_tables)
                 /\ UNCHANGED <<bi, insert_count>>
  /\ UNCHANGED <<env, ti, ordered_tables>>
  /\ UNCHANGED tailVars
  /\ UNCHANGED sideVars

(* ------------------ specification: one table's transfer ---------------- *)

\* The table of the single-table specification.
TheTable == "x_user"

\* One source table of up to MaxRows rows, any of them refused by the
\* destination, with or without a unique key.
TableEnvs ==
  { [EnvDefaults EXCEPT !.src_rows[TheTable] = n, !.bad_rows[TheTable] = bad,
                        !.keyed = k] @@
      [mysql_tables |-> <<TheTable>>,
       pg_kind |-> [t \in Names |-> IF t = TheTable THEN "table" ELSE "absent"],
       skip_tables |-> {"vx_principal"}, skip_missing_tables |-> TRUE] :
      n \in 0..MaxRows, bad \in SUBSET RowIds, k \in {Names, Names \ {TheTable}} }

\* The destination table as a call finds it: empty, or holding the source's
\* rows already.
LoadedOnce(e) ==
  [t \in Names |-> [r \in RowIds |-> IF r <= e.src_rows[t] THEN 1 ELSE 0]]

\* main() calls migrate_table_data with the transaction idle (after a
\* commit), open (after the ordering's probes) or failed (after a probe
\* that errored).
InitTable ==
  \E e \in TableEnvs, st \in {"idle", "intrans", "failed"} :
   \E rows \in {NoRows, LoadedOnce(e)} :
    /\ e.bad_rows[TheTable] \subseteq 1..e.src_rows[TheTable]
    /\ Connected(e, "migrate_read")
    /\ txn = st
    /\ ordered_tables = <<TheTable>>
    /\ committed = rows
    /\ pending = rows

NextTable ==
  \/ MigrateRead
  \/ MigrateBatch
  \/ MigrateCommit

SpecTable == InitTable /\ [][NextTable]_vars

(* ------------------- specification: the reset pass -------------------- *)

\* The foreign keys of the model's schema: x_portal_user_role.user_id
\* references x_portal_user, or the destination declares none.
FkChoices == {{}, {<<"x_portal_user_role", "x_portal_user">>}}

\* The skip_tables of a reset: the shipped view, alone or with the priority
\* table x_group.
SkipChoices == {{"vx_principal"}, {"vx_principal", "x_group"}}

\* Destinations of a reset: every priority relation is absent or a table
\* (x_group may be a view); the two other tables exist.
ResetKinds ==
  { k \in [Names -> Kinds] :
      /\ k["vx_principal"] = "view"
      /\ k["x_portal_user_role"] = "table"
      /\ k["x_trx_log"] = "table"
      /\ k["x_portal_user"] # "view"
      /\ k["x_user"] # "view" }

ResetEnvs ==
  { [EnvDefaults EXCEPT !.fk = f] @@
      [mysql_tables |-> <<>>, pg_kind |-> k, skip_tables |-> sk,
       skip_missing_tables |-> sm] :
      k \in ResetKinds, sm \in BOOLEAN, f \in FkChoices, sk \in SkipChoices }

\* Rows left by an earlier load: row 1 in every destination table.
StaleRows(e) ==
  [n \in Names |->
     [r \in RowIds |-> IF e.pg_kind[n] = "table" /\ r = 1 THEN 1 ELSE 0]]

InitReset ==
  /\ \E e \in ResetEnvs :
       /\ Connected(e, "truncate")
       /\ txn = "idle"
       /\ ordered_tables = <<>>
       /\ committed = StaleRows(e)
       /\ pending = StaleRows(e)

NextReset == TruncateStep

SpecReset == InitReset /\ [][NextReset]_vars

(* ------------------------------ sequences ------------------------------ *)

\* update_sequences: the tables of sequence_mappings that the model's schema
\* has, in the order of the list; the sequence of table t is t_seq.
sequence_mappings == <<"x_portal_user", "x_portal_user_role", "x_group", "x_user">>

MaxIdIsLowestId(rows, table_name) ==
  LET ids == {r \in RowIds : rows[table_name][r] > 0}
  IN  IF ids = {} THEN 0 ELSE CHOOSE m \in ids : \A r \in ids : m <= r

MaxIdIsCount(rows, table_name) ==
  Cardinality({r \in RowIds : rows[table_name][r] > 0})

\* SELECT COALESCE(MAX(id), 0): the row identifier is the id.
MaxId(rows, table_name) ==
  LET ids == {r \in RowIds : rows[table_name][r] > 0}
  IN  IF ids = {} THEN 0 ELSE CHOOSE m \in ids : \A r \in ids : r <= m

\* What can go wrong in one binding's step: an SQL error in the existence
\* probe (table_exists turns it into False), an SQL error in the query for
\* the sequence, the loss of the connection at the commit.
SequenceFaults == {"none", "seq_probe_error", "seq_error", "seq_commit_lost"}

\* One iteration of the loop of update_sequences, with its except and finally
\* branches. setval is not transactional: its effect stays whatever the
\* transaction does afterwards.
UpdateSequence ==
  /\ pc = "sequences"
  /\ si <= Len(sequence_mappings)
  /\ \E fault \in SequenceFaults :
       LET table_name == sequence_mappings[si]
           probeFails == fault = "seq_probe_error"
           probed == conn = "open" /\ table_exists(table_name, txn, probeFails)
           sequence_exists == probed /\ fault # "seq_error"
                                /\ table_name \in env.pg_seqs
           max_id == MaxId(pending, table_name)
           sets == sequence_exists /\ max_id > 0
       IN  /\ fault # "none" => hist.faults < MaxFaults
           /\ probeFails => (conn = "open" /\ txn # "failed")
           /\ fault = "seq_error" => probed
           /\ fault = "seq_commit_lost" => sequence_exists
           /\ seqVal' = IF sets THEN [seqVal EXCEPT ![table_name] = max_id]
                        ELSE seqVal
           /\ updated_count' = updated_count + (IF sets THEN 1 ELSE 0)
           /\ conn' = IF fault = "seq_commit_lost" THEN "broken" ELSE conn
           /\ txn' = IF conn # "open" THEN txn
                     ELSE IF ~probed THEN AfterStatement(txn, probeFails)
                     ELSE IF fault = "seq_error" THEN "idle"
                     ELSE IF ~sequence_exists THEN "intrans"
                     ELSE "idle"
           /\ committed' = IF sequence_exists /\ fault = "none" THEN pending
                           ELSE committed
           /\ pending' = IF fault \in {"seq_error", "seq_commit_lost"}
                           THEN committed ELSE pending
           /\ hist' = [hist EXCEPT
                 !.faults = @ + (IF fault = "none" THEN 0 ELSE 1),
                 !.seqStart = IF si = 1 THEN txn ELSE @,
                 !.seqBefore = IF si = 1 THEN seqVal ELSE @,
                 !.seqFailed = IF fault = "none" THEN @ ELSE @ \cup {si},
                 !.setvals = IF sets THEN @ \cup {table_name} ELSE @]
           /\ si' = si + 1
           /\ pc' = IF si' > Len(sequence_mappings) THEN "close" ELSE "sequences"
  /\ UNCHANGED <<env, ti, ordered_tables, tbl, bi, insert_count, total_migrated,
                 exit_code>>
  /\ UNCHANGED sideVars

(* ------------------------------- main ---------------------------------- *)

\* MySQLdb.connect and psycopg2.connect: both succeed, the first raises (the
\* second is never tried), or the second raises.
ConnectOutcomes == {"both", "no_mysql", "no_postgres"}

\* main(): both connects, then the branch on truncate_before_insert. A
\* connect that raises is a critical error.
Connect ==
  /\ pc = "connect"
  /\ \E outcome \in ConnectOutcomes :
       LET connects == outcome = "both"
       IN  /\ ~connects => hist.faults < MaxFaults
           /\ mysql_conn' = IF outcome = "no_mysql" THEN "none" ELSE "open"
           /\ session_replication_role' = "origin"
           /\ conn' = IF connects THEN "open" ELSE "none"
           /\ pc' = IF ~connects THEN "fatal"
                    ELSE IF env.truncate_before_insert THEN "truncate"
                    ELSE "order"
           /\ hist' = [hist EXCEPT !.faults = @ + (IF connects THEN 0 ELSE 1)]
  /\ UNCHANGED <<env, txn, committed, pending, ti, ordered_tables, tbl, bi,
                 insert_count, total_migrated>>
  /\ UNCHANGED tailVars
  /\ UNCHANGED reportVars

ExitStatusAlwaysZero(reached) == 0

\* The exit status of main: sys.exit(1) in the except branch, 0 when the try
\* block runs to its end.
ExitStatus(reached) == IF reached = "fatal" THEN 1 ELSE 0

ConnectionLeftAsIs(c) == c

\* "if c: c.close()" of the finally branch: a connection that was opened
\* is closed, whatever state it is in.
ClosedConnection(c) == IF c = "none" THEN "none" ELSE "closed"

\* main(): the end of the try block or its except branch (sys.exit(1)), and
\* the finally branch that closes the connections; closing discards what the
\* open transaction holds.
Close ==
  /\ pc \in {"close", "fatal"}
  /\ exit_code' = ExitStatus(pc)
  /\ mysql_conn' = ClosedConnection(mysql_conn)
  /\ UNCHANGED session_replication_role
  /\ conn' = ClosedConnection(conn)
  /\ txn' = "idle"
  /\ pending' = committed
  /\ pc' = "done"
  /\ UNCHANGED <<env, committed, ti, ordered_tables, tbl, bi, insert_count,
                 total_migrated, si, updated_count, seqVal, hist>>
  /\ UNCHANGED reportVars

\* The script is started again on the same two databases.
Rerun ==
  /\ pc = "done"
  /\ hist.run = 1
  /\ pc' = "connect"
  /\ conn' = "none"
  /\ ti' = 1
  /\ ordered_tables' = <<>>
  /\ tbl' = 1
  /\ bi' = 0
  /\ insert_count' = 0
  /\ total_migrated' = 0
  /\ si' = 1
  /\ updated_count' = 0
  /\ exit_code' = -1
  /\ hist' = [NoHist EXCEPT
        !.run = 2,
        !.faults = hist.faults,
        !.firstClean = (hist.faults = 0 /\ exit_code = 0),
        !.firstCounts = [t \in Names |-> RowCount(committed, t)]]
  /\ mysql_conn' = "none"
  /\ UNCHANGED <<env, txn, committed, pending, seqVal, session_replication_role>>
  /\ UNCHANGED reportVars

(* -------------------- specification: the whole script ------------------ *)

\* The databases of a run: the source lists the view vx_principal, three
\* rows of x_portal_user, one row of x_portal_user_role and of x_trx_log and
\* an empty x_user; the destination has the same relations (x_user or not)
\* and x_group, and the foreign key from x_portal_user_role to x_portal_user;
\* x_trx_log has a unique key or none; the destructive reset is enabled or not.
RunEnvs ==
  { [mysql_tables |-> <<"vx_principal", "x_portal_user", "x_portal_user_role",
                        "x_trx_log", "x_user">>,
     pg_kind |-> [n \in Names |-> IF n = "vx_principal" THEN "view"
                                  ELSE IF n = "x_user" THEN ku ELSE "table"],
     skip_tables |-> {"vx_principal"},
     skip_missing_tables |-> TRUE,
     truncate_before_insert |-> tbi,
     src_rows |-> [n \in Names |-> IF n = "x_portal_user" THEN batch_size + 1
                                   ELSE IF n \in {"x_user", "x_group"} THEN 0
                                   ELSE 1],
     bad_rows |-> [n \in Names |-> {}],
     keyed |-> k,
     fk |-> {<<"x_portal_user_role", "x_portal_user">>},
     pg_seqs |-> Names] :
     ku \in {"table", "absent"}, tbi \in BOOLEAN,
     k \in {Names, Names \ {"x_trx_log"}} }

Init ==
  /\ \E e \in RunEnvs : Connected(e, "connect")
  /\ txn = "idle"
  /\ ordered_tables = <<>>
  /\ committed = NoRows
  /\ pending = NoRows

Next ==
  \/ Connect
  \/ TruncateStep
  \/ GetMysqlTablesOrdered
  \/ MigrateRead
  \/ MigrateBatch
  \/ MigrateCommit
  \/ UpdateSequence
  \/ Close
  \/ Rerun

Spec == Init /\ [][Next]_vars

(* ---------------- specification: the sequence update ------------------ *)

\* Destinations of a sequence update: x_portal_user_role exists or not,
\* x_group is a table or a view, and the sequence of x_portal_user_role
\* exists or not.
SeqEnvs ==
  { [EnvDefaults EXCEPT !.pg_seqs = q] @@
      [mysql_tables |-> <<>>,
       pg_kind |-> [n \in Names |-> IF n = "x_portal_user_role" THEN kr
                                    ELSE IF n = "x_group" THEN kg
                                    ELSE IF n = "vx_principal" THEN "view"
                                    ELSE "table"],
       skip_tables |-> {"vx_principal"}, skip_missing_tables |-> TRUE] :
      kr \in {"table", "absent"}, kg \in {"table", "view"},
      q \in {Names, Names \ {"x_portal_user_role"}} }

\* The rows the transfers left: any rows of x_portal_user, one row or none
\* of x_portal_user_role and of x_user, where those are tables.
LeftRows(e, ids, role, user) ==
  [n \in Names |->
     [r \in RowIds |->
        IF e.pg_kind[n] # "table" THEN 0
        ELSE IF n = "x_portal_user" THEN (IF r \in ids THEN 1 ELSE 0)
        ELSE IF n = "x_portal_user_role" THEN (IF r = 1 THEN role ELSE 0)
        ELSE IF n = "x_user" THEN (IF r = 1 THEN user ELSE 0)
        ELSE 0]]

\* main() calls update_sequences with the transaction idle, open or failed.
\* Where the sequences stand before the call: at their start value, or
\* ahead of every id (left there by rows that are gone since).
SequenceStarts == {1, MaxRows + 1}

InitSeq ==
  \E e \in SeqEnvs, st \in {"idle", "intrans", "failed"} :
   \E ids \in SUBSET RowIds, role \in {0, 1}, user \in {0, 1},
      v \in SequenceStarts :
    /\ ConnectedAt(e, "sequences", [t \in Names |-> v])
    /\ txn = st
    /\ ordered_tables = <<>>
    /\ committed = LeftRows(e, ids, role, user)
    /\ pending = committed

NextSeq == UpdateSequence

SpecSeq == InitSeq /\ [][NextSeq]_vars

(* ---------------------------- type conversion -------------------------- *)

\* Python values a source column may hold, by their repr: the integers 0, 1
\* and 2, None (SQL NULL) and the string '1'.
SourceValues == {"0", "1", "2", "None", "'1'"}

\* config.py TYPE_CONVERSIONS['boolean']['tables'], cut to two of its tables.
BooleanTables ==
  [x_service |-> <<"is_enabled">>,
   x_policy |-> <<"is_enabled", "is_audit_enabled">>]

ConversionTruthy(x) == IF x = "0" THEN "False" ELSE "True"

\* config.py TYPE_CONVERSIONS['boolean']['conversion']:
\* lambda x: True if x == 1 else False if x == 0 else None.
BooleanConversion(x) ==
  IF x = "1" THEN "True" ELSE IF x = "0" THEN "False" ELSE "None"

ConversionErrorGivesNone(x) == "None"

\* The except branch around the transform: the error is logged and the
\* element of converted_row is not assigned, so it keeps its value.
OnConversionError(x) == x

\* conversion_func(converted_row[col_index]) inside its try: the configured
\* transform's value, or the original when the transform raises for it.
TryConversion(x) ==
  IF x \in env.raises THEN OnConversionError(x) ELSE BooleanConversion(x)

\* Python columns.index(col_name): the first position of the name.
ColumnIndex(columns, col_name) ==
  CHOOSE i \in 1..Len(columns) :
    columns[i] = col_name /\ \A j \in 1..(i - 1) : columns[j] # col_name

RECURSIVE ConvertColumns(_, _, _)
\* "for col_name in columns_to_convert": a listed column that the table has
\* is replaced by its conversion.
ConvertColumns(converted_row, columns_to_convert, columns) ==
  IF columns_to_convert = <<>> THEN converted_row
  ELSE
    LET col_name == Head(columns_to_convert)
        next ==
          IF Contains(columns, col_name)
               /\ ColumnIndex(columns, col_name) <= Len(converted_row)
            THEN [converted_row EXCEPT ![ColumnIndex(columns, col_name)] =
                                         TryConversion(@)]
          ELSE converted_row
    IN  ConvertColumns(next, Tail(columns_to_convert), columns)

\* convert_data_types: every row, converted for the rule of its table.
convert_data_types(table_name, columns, rows) ==
  [k \in 1..Len(rows) |->
     IF table_name \in DOMAIN BooleanTables
       THEN ConvertColumns(rows[k], BooleanTables[table_name], columns)
     ELSE rows[k]]

\* The column lists of the conversion's inputs.
ColumnLists ==
  {<<"id", "is_enabled">>, <<"is_enabled", "is_audit_enabled">>, <<"id", "name">>}

\* A call's inputs: a table with the rule for one column, for two, or with
\* none, and the columns SHOW COLUMNS lists.
ConvertEnvs ==
  { [table_name |-> t, columns |-> c, raises |-> {}] :
      t \in {"x_service", "x_policy", "x_user"}, c \in ColumnLists }

\* The rows of n columns a SELECT may return, at most MaxConvertRows of them.
RowLists(n) ==
  UNION { [1..k -> [1..n -> SourceValues]] : k \in 0..MaxConvertRows }

\* migrate_table_data: converted_rows = convert_data_types(table_name,
\* columns, rows).
ConvertDataTypes ==
  /\ pc = "convert"
  /\ \E rows \in RowLists(Len(env.columns)) :
       /\ converted_rows' = convert_data_types(env.table_name, env.columns, rows)
       /\ hist' = [hist EXCEPT !.rows = rows]
  /\ pc' = "converted"
  /\ UNCHANGED <<env, conn, txn, committed, pending, ti, ordered_tables, tbl, bi,
                 insert_count, total_migrated>>
  /\ UNCHANGED <<mysql_conn, session_replication_role, verification_results,
                 mismatch_report>>
  /\ UNCHANGED tailVars

InitConvert ==
  /\ \E e \in ConvertEnvs : Connected(e, "convert")
  /\ txn = "idle"
  /\ ordered_tables = <<>>
  /\ committed = NoRows
  /\ pending = NoRows

NextConvert == ConvertDataTypes

SpecConvert == InitConvert /\ [][NextConvert]_vars

\* The same calls under a configured transform that never raises (the
\* shipped lambda) or that raises for a value it cannot handle, the string.
TransformEnvs ==
  { [e EXCEPT !.raises = r] : e \in ConvertEnvs, r \in {{}, {"'1'"}} }

InitTransform ==
  /\ \E e \in TransformEnvs : Connected(e, "convert")
  /\ txn = "idle"
  /\ ordered_tables = <<>>
  /\ committed = NoRows
  /\ pending = NoRows

NextTransform == ConvertDataTypes

SpecTransform == InitTransform /\ [][NextTransform]_vars

(* ------------------------ verification: tables ------------------------- *)

\* The row counts a table may have on either side.
CountValues == {0, 1, 480, 500}

\* table_exists(conn, table_name, 'mysql'): information_schema.tables of the
\* source knows the name; an error is turned into False.
mysql_table_exists(table_name, fails) ==
  ~fails /\ table_name \in Range(env.mysql_tables)

\* get_table_row_count: SELECT COUNT(*), and -1 when the statement errors (on
\* the destination also when the transaction refuses statements).
get_table_row_count(count, st, fails) ==
  IF st = "failed" \/ fails THEN -1 ELSE count

\* The status verify_table_data derives from the two counts.
CountStatus(mysql_count, postgres_count) ==
  IF mysql_count = postgres_count THEN "MATCH"
  ELSE IF postgres_count = 0 THEN "EMPTY_POSTGRES"
  ELSE IF mysql_count = 0 THEN "EMPTY_MYSQL"
  ELSE "MISMATCH"

\* What can go wrong while one table is verified: an error in one of the two
\* existence probes, in one of the two counts, or in both counts (the same
\* SELECT COUNT(*) FROM <name> is sent to both sides).
VerifyFaults ==
  {"none", "mysql_probe_error", "postgres_probe_error", "mysql_count_error",
   "postgres_count_error", "both_count_error"}

\* verify_table_data: the result record, and the destination transaction's
\* state after the statements the function sent.
verify_table_data(table_name, st, fault) ==
  LET mysql_exists == mysql_table_exists(table_name, fault = "mysql_probe_error")
      postgres_exists == table_exists(table_name, st, fault = "postgres_probe_error")
      probed == AfterStatement(st, fault = "postgres_probe_error")
      mysql_count == get_table_row_count(env.mysql_count[table_name], "idle",
                             fault \in {"mysql_count_error", "both_count_error"})
      postgres_count == get_table_row_count(env.postgres_count[table_name], probed,
                          fault \in {"postgres_count_error", "both_count_error"})
      missing == [table |-> table_name, mysql_exists |-> mysql_exists,
                  postgres_exists |-> postgres_exists,
                  mysql_count |-> 0, postgres_count |-> 0,
                  status |-> IF ~mysql_exists /\ ~postgres_exists THEN "MISSING_BOTH"
                             ELSE IF ~mysql_exists THEN "MISSING_MYSQL"
                             ELSE "MISSING_POSTGRES"]
  IN  IF ~mysql_exists \/ ~postgres_exists
        THEN [result |-> missing, txn |-> probed]
        ELSE [result |-> [missing EXCEPT
                            !.mysql_count = mysql_count,
                            !.postgres_count = postgres_count,
                            !.status = CountStatus(mysql_count, postgres_count)],
              txn |-> AfterStatement(probed,
                        fault \in {"postgres_count_error", "both_count_error"})]

\* main(): one iteration of "for i, table in enumerate(all_tables, 1)".
VerifyTableData ==
  /\ pc = "verify_tables"
  /\ tbl <= Len(ordered_tables)
  /\ \E fault \in VerifyFaults :
       LET v == verify_table_data(ordered_tables[tbl], txn, fault)
       IN  /\ fault # "none" => hist.faults < MaxFaults
           /\ verification_results' = Append(verification_results, v.result)
           /\ txn' = v.txn
           /\ hist' = [hist EXCEPT !.faults = @ + (IF fault = "none" THEN 0 ELSE 1)]
  /\ tbl' = tbl + 1
  /\ UNCHANGED <<env, pc, conn, committed, pending, ti, ordered_tables, bi,
                 insert_count, total_migrated, converted_rows, mismatch_report,
                 mysql_conn, session_replication_role>>
  /\ UNCHANGED tailVars

(* ------------------------ verification: report ------------------------- *)

DifferenceSourceMinusDestination(result) ==
  result.mysql_count - result.postgres_count

\* generate_report: difference = result['postgres_count'] - result['mysql_count'].
Difference(result) == result.postgres_count - result.mysql_count

\* "+{0}".format(difference) if difference > 0 else str(difference), as the
\* sign printed and the digits' value.
DiffStr(difference) ==
  IF difference > 0 THEN <<"+", difference>>
  ELSE IF difference < 0 THEN <<"-", 0 - difference>>
  ELSE <<"", 0>>

\* generate_report: the lines under TABLES WITH MISMATCHES, in the order of
\* the results.
MismatchLines(results) ==
  LET RECURSIVE Lines(_)
      Lines(k) ==
        IF k = 0 THEN <<>>
        ELSE IF results[k].status = "MISMATCH"
          THEN Append(Lines(k - 1),
                      [table |-> results[k].table,
                       mysql |-> results[k].mysql_count,
                       postgres |-> results[k].postgres_count,
                       diff_str |-> DiffStr(Difference(results[k]))])
          ELSE Lines(k - 1)
  IN  Lines(Len(results))

\* main(): the statuses that make the verification fail.
FailingStatuses == {"MISMATCH", "MISSING_POSTGRES", "EMPTY_POSTGRES"}

\* main(): mismatched_tables and the exit status it decides.
VerifyExitStatus(results) ==
  IF \E k \in 1..Len(results) : results[k].status \in FailingStatuses
    THEN 1 ELSE 0

\* main(): generate_report, the overall check with sys.exit, and the finally
\* branch that closes the connections.
VerifyReport ==
  /\ pc = "verify_tables"
  /\ tbl > Len(ordered_tables)
  /\ mismatch_report' = MismatchLines(verification_results)
  /\ exit_code' = VerifyExitStatus(verification_results)
  /\ mysql_conn' = "closed"
  /\ conn' = "closed"
  /\ UNCHANGED session_replication_role
  /\ pc' = "done"
  /\ UNCHANGED <<env, txn, committed, pending, ti, ordered_tables, tbl, bi,
                 insert_count, total_migrated, si, updated_count, seqVal,
                 converted_rows, verification_results, hist>>

(* ------------------ specification: the verification -------------------- *)

\* The source's listing of a set of tables, in ascending order.
SortedListing(S) == ListSort(CHOOSE p \in Perms(S) : TRUE)

\* The databases of a verification: x_portal_user is on the source or not,
\* on the destination or not, with any two counts; x_trx_log is on both
\* sides with equal counts, an empty source or an empty destination; x_group
\* is on both sides with one row and is named in skip_tables or not.
VerifyEnvs ==
  { [EnvDefaults EXCEPT !.src_rows = [n \in Names |-> 0]] @@
      [mysql_tables |-> SortedListing({"x_group", "x_trx_log"}
                          \cup (IF my THEN {"x_portal_user"} ELSE {})),
       pg_kind |-> [n \in Names |-> IF n = "x_portal_user" THEN pk
                                    ELSE IF n \in {"x_group", "x_trx_log"} THEN "table"
                                    ELSE "absent"],
       skip_tables |-> sk, skip_missing_tables |-> TRUE,
       mysql_count |-> [n \in Names |-> IF n = "x_portal_user" THEN mc
                                        ELSE IF n = "x_trx_log" THEN lg[1]
                                        ELSE 1],
       postgres_count |-> [n \in Names |-> IF n = "x_portal_user" THEN pcnt
                                           ELSE IF n = "x_trx_log" THEN lg[2]
                                           ELSE 1]] :
      my \in BOOLEAN, pk \in {"absent", "table"},
      mc \in CountValues, pcnt \in CountValues,
      lg \in {<<1, 1>>, <<0, 1>>, <<1, 0>>},
      sk \in {{"vx_principal"}, {"vx_principal", "x_group"}} }

InitVerify ==
  /\ \E e \in VerifyEnvs : Connected(e, "verify_order")
  /\ txn = "idle"
  /\ ordered_tables = <<>>
  /\ committed = NoRows
  /\ pending = NoRows

NextVerify ==
  \/ GetAllTables
  \/ VerifyTableData
  \/ VerifyReport

SpecVerify == InitVerify /\ [][NextVerify]_vars

(* ------------------------- claims: the ordering ------------------------ *)

NoDuplicates(s) == \A i, j \in 1..Len(s) : s[i] = s[j] => i = j

InPriorityList(n) == Contains(PRIORITY_TABLES_ORDER, n)

PriorityIndex(n) == CHOOSE i \in 1..Len(PRIORITY_TABLES_ORDER) : PRIORITY_TABLES_ORDER[i] = n

\* The eligible source tables: listed by the source, not in skip_tables, a
\* base table (so present, and no view) on the destination.
Eligible ==
  {n \in Range(env.mysql_tables) :
     n \notin env.skip_tables /\ env.pg_kind[n] = "table"}

\* C4: get_mysql_tables_ordered returns a sequence without duplicates that
\* holds no ineligible table and, when no probe errored, every eligible
\* source table (each exactly once).
C4_OrderIsExactlyEligible ==
  hist.path = "migrate" =>
    /\ NoDuplicates(ordered_tables)
    /\ Range(ordered_tables) \subseteq Eligible
    /\ (~hist.probeFault => Range(ordered_tables) = Eligible)

\* C4 witness: an order of two tables was resolved from a source that also
\* lists a table that is not eligible.
C4_Witness ==
  /\ hist.path = "migrate"
  /\ ~hist.probeFault
  /\ Len(ordered_tables) = 2
  /\ Len(env.mysql_tables) = 3

\* C5: in the resolved order of either script, priority tables come first
\* in priority-list order, and the other tables follow in ascending
\* lexicographic order.
C5_PriorityFirstThenSorted ==
  hist.path \in {"migrate", "verify"} =>
    \A i, j \in 1..Len(ordered_tables) :
      i < j =>
        LET a == ordered_tables[i]
            b == ordered_tables[j]
        IN  /\ InPriorityList(b) => InPriorityList(a)
            /\ (InPriorityList(a) /\ InPriorityList(b))
                  => PriorityIndex(a) < PriorityIndex(b)
            /\ (~InPriorityList(a) /\ ~InPriorityList(b)) => StrLess(a, b)

\* C5 witness: the verification path resolved one priority table followed
\* by two tables that the priority list does not name.
C5_Witness ==
  /\ hist.path = "verify"
  /\ Len(ordered_tables) = 3
  /\ InPriorityList(ordered_tables[1])
  /\ ~InPriorityList(ordered_tables[2])
  /\ ~InPriorityList(ordered_tables[3])

(* ------------------------ claims: the reset pass ----------------------- *)

\* Python [t for t in s if keep(t)] for keep = "exists on the destination".
RECURSIVE ExistingOf(_)
ExistingOf(s) ==
  IF s = <<>> THEN <<>>
  ELSE (IF env.pg_kind[Head(s)] # "absent" THEN <<Head(s)>> ELSE <<>>)
         \o ExistingOf(Tail(s))

\* The reset pass has returned to main.
ResetReturned ==
  /\ pc \notin {"connect", "truncate", "fatal"}
  /\ hist.resetSteps > 0
  /\ ~hist.resetAborted

\* C6: TRUNCATE is issued in the reverse of the priority-list order and
\* never for a table the existence check reported absent, whatever
\* skip_missing_tables is; a pass in which no statement failed issues it for
\* exactly the priority tables that exist on the destination.
C6_ReverseOrderClearing ==
  /\ \A i, j \in 1..Len(hist.truncLog) :
       i < j => /\ InPriorityList(hist.truncLog[i])
                /\ InPriorityList(hist.truncLog[j])
                /\ PriorityIndex(hist.truncLog[i]) > PriorityIndex(hist.truncLog[j])
  /\ \A i \in 1..Len(hist.truncLog) :
       /\ hist.truncLog[i] \notin hist.absentSeen
       /\ env.pg_kind[hist.truncLog[i]] # "absent"
  /\ (ResetReturned /\ hist.resetFaults = 0)
        => hist.truncLog = ExistingOf(Reversed(PRIORITY_TABLES_ORDER))

\* C6 witness: with skip_missing_tables disabled, a fault-free pass cleared
\* x_group and then x_portal_user and skipped the absent x_user.
C6_Witness ==
  /\ ResetReturned
  /\ hist.resetFaults = 0
  /\ ~env.skip_missing_tables
  /\ hist.truncLog = <<"x_group", "x_portal_user">>
  /\ hist.absentSeen = {"x_user"}

\* C9 as claimed: no failure of a table's step or of its recovery aborts the
\* pass.
C9_ResetNeverAborts == ~hist.resetAborted

\* C9 amended: the pass is aborted only by a failed reconnect after the
\* connection was lost; otherwise every table of the reversed priority list
\* gets its step and the pass returns an open connection.
C9_ResetAbortsOnlyOnFailedReconnect ==
  /\ hist.resetAborted <=> hist.reconnectFailed
  /\ hist.resetAborted => (pc \in {"fatal", "done"} /\ conn = "closed")
  /\ ResetReturned => hist.resetSteps = Len(PRIORITY_TABLES_ORDER)
  /\ (ResetReturned /\ pc = "order") => conn \in {"open", "broken"}
  /\ (pc = "truncate" /\ ~hist.resetAborted) => hist.resetSteps = ti - 1

\* C9 witness: the clear of a table failed and the pass went on to clear a
\* later table and returned.
C9_Witness ==
  /\ ResetReturned
  /\ hist.resetFaults > 0
  /\ hist.resetSteps = Len(PRIORITY_TABLES_ORDER)
  /\ Len(hist.truncLog) = 3
  /\ hist.truncated_count < 3
  /\ "x_portal_user" \in hist.cleared

(* ---------------------- claims: the whole script ---------------------- *)

\* C7: with the destructive reset enabled, every table the transfer loads
\* into was cleared by the reset before (no statement of the run failed).
C7_EveryLoadedTableWasCleared ==
  (env.truncate_before_insert /\ hist.faults = 0) =>
    hist.loaded \subseteq hist.cleared

\* C8: with the destructive reset enabled, a second run of the script leaves
\* every destination table with the row count the first run left (no
\* statement of either run failed).
C8_SecondRunSameCounts ==
  (/\ pc = "done"
   /\ hist.run = 2
   /\ hist.firstClean
   /\ hist.faults = 0
   /\ exit_code = 0
   /\ env.truncate_before_insert) =>
    \A t \in Names : RowCount(committed, t) = hist.firstCounts[t]

(* ---------------------- claims: the row transfer ----------------------- *)

\* The copies of row r of the call's table that the call made durable.
Landed(r) == committed[hist.call.table][r] - hist.call.before[hist.call.table][r]

\* The number of rows of the call's table that the call made durable.
LandedCount ==
  LET RECURSIVE Sum(_)
      Sum(k) == IF k = 0 THEN 0 ELSE Landed(k) + Sum(k - 1)
  IN  Sum(MaxRows)

\* migrate_table_data has returned through its final commit.
CallCommitted == hist.call.state = "returned"

\* The offsets at which the batch loop cuts the call's table.
BatchOffsets ==
  {b \in {k * batch_size : k \in 0..MaxRows} : b < env.src_rows[hist.call.table]}

\* C1: the failure of one batch's multi-row insert loses no row of another
\* batch: after the final commit every row of a batch whose multi-row insert
\* succeeded is in the destination (nothing but rows the destination refuses
\* went wrong, and the call started in a usable transaction).
C1_OnlyFailedRowsMissing ==
  (/\ CallCommitted
   /\ hist.call.faults = 0
   /\ hist.call.txnAtStart # "failed") =>
    \A b \in BatchOffsets \ hist.call.batchFailed :
      \A r \in Range(Batch(SourceRows(hist.call.table), b)) : Landed(r) >= 1

\* The batches (by offset) of the call's table that hold exactly one row the
\* destination refuses.
OneBadRowBatches ==
  {b \in BatchOffsets :
     /\ Cardinality(Range(Batch(SourceRows(hist.call.table), b))
                      \cap env.bad_rows[hist.call.table]) = 1}

\* C2: a batch with exactly one row that violates a destination constraint is
\* replayed row by row and all its other rows land: the call commits
\* len(batch) - 1 rows of it (the table was empty, nothing else went wrong).
C2_OneBadRowCostsOneRow ==
  (/\ CallCommitted
   /\ hist.call.faults = 0
   /\ hist.call.txnAtStart # "failed"
   /\ hist.call.before = NoRows)
    => \A b \in OneBadRowBatches :
         LET batch == Batch(SourceRows(hist.call.table), b)
         IN  Cardinality({r \in Range(batch) : Landed(r) = 1}) = Len(batch) - 1

\* C3: the count migrate_table_data returns is the number of rows of the
\* table that the call left committed in the destination (nothing but rows
\* the destination refuses went wrong, and the call started in a usable
\* transaction).
C3_ReturnedCountIsCommittedCount ==
  (/\ hist.call.state \in {"returned", "empty", "error"}
   /\ hist.call.faults = 0
   /\ hist.call.txnAtStart # "failed") =>
    hist.call.count = LandedCount

\* C10: the call for a table whose SELECT returns no row returns 0 and leaves
\* the destination session and its rows untouched.
C10_EmptyTableShortCircuit ==
  [][(/\ pc = "migrate_read"
      /\ tbl <= Len(ordered_tables)
      /\ env.src_rows[ordered_tables[tbl]] = 0
      /\ hist'.faults = hist.faults)
       => (/\ hist'.call.state = "empty"
           /\ hist'.call.count = 0
           /\ ~hist'.call.touched
           /\ total_migrated' = total_migrated
           /\ <<conn, txn, committed, pending>>' = <<conn, txn, committed, pending>>
           /\ tbl' = tbl + 1)]_vars

\* C10 witness: an empty table was passed over while the destination held
\* rows and a transaction was open.
C10_Witness ==
  /\ hist.call.state = "empty"
  /\ env.src_rows[hist.call.table] = 0
  /\ txn = "intrans"
  /\ pc = "sequences"

(* ------------------- claims: failure containment ----------------------- *)

\* A step of migrate_table_data that ends in its outer except branch.
CallFailsNow ==
  /\ pc \in {"migrate_read", "migrate_batch", "migrate_commit"}
  /\ hist'.call.state = "error"

\* What every such step does: the destination transaction is gone, the call
\* returns 0 (main's total is unchanged) and main is at the next table.
FailureContained ==
  /\ txn' = "idle"
  /\ pending' = committed'
  /\ hist'.call.count = 0
  /\ total_migrated' = total_migrated
  /\ tbl' = tbl + 1
  /\ pc' = TransferPc(tbl + 1, ordered_tables)
  /\ pc' # "fatal"

\* The call left no row of its table committed.
NothingLanded ==
  committed'[hist'.call.table] = hist'.call.before[hist'.call.table]

\* C11 as claimed: an error outside the per-batch and per-row handlers rolls
\* the destination transaction back, returns 0, leaves no row of the table
\* committed by the call, and main goes on to the next table.
C11_FailureLeavesNothing ==
  [][CallFailsNow => (FailureContained /\ NothingLanded)]_vars

\* C11 amended: the same, except that the call's rows are committed when the
\* error is the loss of the connection after the server applied the final
\* COMMIT.
C11_FailureContained ==
  [][CallFailsNow =>
       /\ FailureContained
       /\ (~hist'.call.unacked => NothingLanded)
       /\ (hist'.call.unacked =>
             committed' = (IF txn = "failed" THEN committed ELSE pending))]_vars

\* C11 witness: the transfer of the first table failed after rows of it had
\* been inserted, nothing of it is committed, and main is at the next table.
C11_Witness ==
  /\ hist.call.state = "error"
  /\ ~hist.call.unacked
  /\ hist.call.attempted # {}
  /\ hist.call.count = 0
  /\ RowCount(committed, hist.call.table) = 0
  /\ ordered_tables # <<>>
  /\ hist.call.table = ordered_tables[1]
  /\ pc = "migrate_read"
  /\ tbl = 2

(* ------------------------ claims: type conversion ---------------------- *)

\* The column at position i of the call's table is listed for the boolean rule.
ListedForBoolean(i) ==
  /\ env.table_name \in DOMAIN BooleanTables
  /\ Contains(BooleanTables[env.table_name], env.columns[i])

\* C12: convert_data_types returns one row per source row; a column listed
\* for the boolean rule under the row's table holds True for 1, False for 0
\* and None for any other value; every other column, and the same column
\* name in a table not listed, keeps its value.
C12_BooleanRule ==
  pc = "converted" =>
    /\ Len(converted_rows) = Len(hist.rows)
    /\ \A k \in 1..Len(hist.rows) :
         /\ Len(converted_rows[k]) = Len(env.columns)
         /\ \A i \in 1..Len(env.columns) :
              converted_rows[k][i] =
                IF ~ListedForBoolean(i) THEN hist.rows[k][i]
                ELSE IF hist.rows[k][i] = "1" THEN "True"
                ELSE IF hist.rows[k][i] = "0" THEN "False"
                ELSE "None"

\* C12 witness: two rows of x_policy were converted, (1, NULL) into
\* (True, None) and (2, 0) into (None, False).
C12_Witness ==
  /\ pc = "converted"
  /\ env.table_name = "x_policy"
  /\ env.columns = <<"is_enabled", "is_audit_enabled">>
  /\ hist.rows = << <<"1", "None">>, <<"2", "0">> >>
  /\ converted_rows = << <<"True", "None">>, <<"None", "False">> >>

(* --------------------- claims: sequence reconciliation ----------------- *)

\* The binding update_sequences is looking at.
BindingTable == sequence_mappings[si]

\* The binding's step runs on a usable connection and nothing fails in it.
CleanBindingStep ==
  /\ pc = "sequences"
  /\ conn = "open"
  /\ txn # "failed"
  /\ hist'.faults = hist.faults

\* The largest id the destination table holds, N.
HasMaxId(table_name, N) ==
  /\ pending[table_name][N] > 0
  /\ \A r \in RowIds : pending[table_name][r] > 0 => r <= N

\* The destination table holds no row.
IsEmptyTable(table_name) == \A r \in RowIds : pending[table_name][r] = 0

\* Both objects of the binding exist on the destination.
BindingExists(table_name) ==
  /\ env.pg_kind[table_name] # "absent"
  /\ table_name \in env.pg_seqs

\* C13: in a binding's step that runs on a usable connection without a
\* failure, a binding whose table and sequence exist has its sequence set to
\* exactly the table's maximum id N when N > 0, and gets no setval and keeps
\* its sequence value when the table is empty; a binding whose table or
\* sequence does not exist gets no setval either.  No step touches the
\* sequence of another binding.
C13_SequenceReconciliation ==
  [][CleanBindingStep =>
       /\ \A N \in RowIds :
            (BindingExists(BindingTable) /\ HasMaxId(BindingTable, N)) =>
               /\ seqVal'[BindingTable] = N
               /\ BindingTable \in hist'.setvals
               /\ updated_count' = updated_count + 1
       /\ (~BindingExists(BindingTable) \/ IsEmptyTable(BindingTable)) =>
               /\ seqVal' = seqVal
               /\ hist'.setvals = hist.setvals
               /\ updated_count' = updated_count
       /\ \A t \in Names \ {BindingTable} : seqVal'[t] = seqVal[t]]_vars

\* C13 witness: x_portal_user holds the ids 1 and 3 and its sequence was set
\* to 3; x_portal_user_role has no sequence, x_group is empty and x_user holds
\* one row: exactly two sequences were set.
C13_Witness ==
  /\ pc = "close"
  /\ hist.faults = 0
  /\ hist.seqStart # "failed"
  /\ {r \in RowIds : committed["x_portal_user"][r] > 0} = {1, 3}
  /\ seqVal["x_portal_user"] = 3
  /\ "x_portal_user_role" \notin env.pg_seqs
  /\ committed["x_user"][1] > 0
  /\ hist.setvals = {"x_portal_user", "x_user"}
  /\ updated_count = 2

\* The bindings in which nothing failed.
HealthyBindings == (1..Len(sequence_mappings)) \ hist.seqFailed

\* C14: after update_sequences, started on a usable connection, every
\* binding in which nothing failed was checked and, when both its objects
\* exist and its table is non-empty, advanced, whatever failed in the
\* bindings before it.
C14_FailureDoesNotBlockLaterBindings ==
  (pc = "close" /\ hist.seqStart \in {"idle", "intrans"}) =>
     \A i \in HealthyBindings :
        (BindingExists(sequence_mappings[i])
           /\ ~IsEmptyTable(sequence_mappings[i])) =>
          sequence_mappings[i] \in hist.setvals

(* ------------------------ claims: commit boundaries -------------------- *)

\* C15: each batch insert is its own commit boundary: when the next batch of
\* a table is about to be attempted, the rows of every earlier batch whose
\* multi-row insert succeeded are durable in the destination.
C15_BatchDurableBeforeNext ==
  (/\ pc = "migrate_batch"
   /\ bi > 0
   /\ hist.call.txnAtStart # "failed") =>
    \A b \in {o \in BatchOffsets : o < bi} \ hist.call.batchFailed :
      \A r \in Range(Batch(SourceRows(hist.call.table), b)) : Landed(r) >= 1

(* --------------------------- claims: exit status ----------------------- *)

\* An error left every local handler: a connection could not be opened at
\* the start, the reconnect of the reset pass failed, or the ordering asked
\* a connection the reset pass returned broken for a cursor.
ErrorEscaped == conn = "none" \/ hist.resetAborted \/ hist.path = "escaped"

\* The run went through all its phases: every table of the order was
\* handed to migrate_table_data and every sequence binding was visited.
RunCompleted ==
  /\ hist.path = "migrate"
  /\ tbl = Len(ordered_tables) + 1
  /\ si = Len(sequence_mappings) + 1

\* C16: the migration exits 0 exactly when the run reached completion,
\* whatever failed in the reset steps, in the tables or in the sequence
\* updates on the way, and exits 1 exactly when an error escaped the local
\* handlers.
C16_MigrationExitContract ==
  pc = "done" =>
    /\ exit_code \in {0, 1}
    /\ exit_code = 0 <=> RunCompleted
    /\ exit_code = 1 <=> ErrorEscaped

\* C16 witness: a run in which a table failed entirely (its call returned
\* through the outer handler) ended with status 0.
C16_Witness ==
  /\ pc = "done"
  /\ exit_code = 0
  /\ hist.call.state = "error"
  /\ hist.faults = 1

(* --------------------------- claims: verification ---------------------- *)

\* The verification pass has ended.
VerificationEnded == pc = "done" /\ hist.path = "verify"

\* The tables the pass checked.
CheckedTables == {verification_results[k].table : k \in 1..Len(verification_results)}

\* The table is on the source.
OnSource(table_name) == table_name \in Range(env.mysql_tables)

\* C17: the verification pass exits 0 only if every checked table is present
\* on the destination and, when it is on the source too, holds as many rows
\* there as on the source (no statement of the pass failed).
C17_ExitZeroOnlyIfAllMatch ==
  (VerificationEnded /\ exit_code = 0 /\ hist.faults = 0) =>
    \A t \in CheckedTables :
      /\ env.pg_kind[t] # "absent"
      /\ OnSource(t) => env.mysql_count[t] = env.postgres_count[t]

\* The status tags of the report.
StatusTags ==
  {"MATCH", "MISMATCH", "MISSING_MYSQL", "MISSING_POSTGRES", "MISSING_BOTH",
   "EMPTY_MYSQL", "EMPTY_POSTGRES"}

\* The status the claim gives a table from the two databases as they are.
ClaimedStatus(t) ==
  IF ~OnSource(t) /\ env.pg_kind[t] = "absent" THEN {"MISSING_BOTH"}
  ELSE IF ~OnSource(t) THEN {"MISSING_MYSQL"}
  ELSE IF env.pg_kind[t] = "absent" THEN {"MISSING_POSTGRES"}
  ELSE IF env.mysql_count[t] = env.postgres_count[t] THEN {"MATCH"}
  ELSE IF env.mysql_count[t] # 0 /\ env.postgres_count[t] # 0 THEN {"MISMATCH"}
  ELSE {"EMPTY_MYSQL", "EMPTY_POSTGRES"}

\* The line the claim expects for a mismatching table: destination minus
\* source, with its sign.
ClaimedLine(r) ==
  [table |-> r.table, mysql |-> r.mysql_count, postgres |-> r.postgres_count,
   diff_str |-> IF r.postgres_count > r.mysql_count
                  THEN <<"+", r.postgres_count - r.mysql_count>>
                  ELSE <<"-", r.mysql_count - r.postgres_count>>]

\* C18: every checked table gets one result with one status tag, in the
\* order of the check; a table absent on the destination is never MATCH or
\* MISMATCH, whatever failed; when no statement failed the status is the one
\* the two databases call for (MISSING_* by absence, MATCH for equal counts,
\* MISMATCH for different non-zero counts); the report lists every MISMATCH
\* with the difference destination minus source.
C18_StatusPerTable ==
  /\ Len(verification_results) <= Len(ordered_tables)
  /\ \A k \in 1..Len(verification_results) :
       LET r == verification_results[k]
       IN  /\ r.table = ordered_tables[k]
           /\ r.status \in StatusTags
           /\ env.pg_kind[r.table] = "absent" => r.status \notin {"MATCH", "MISMATCH"}
           /\ hist.faults = 0 => r.status \in ClaimedStatus(r.table)
  /\ VerificationEnded =>
       /\ Len(verification_results) = Len(ordered_tables)
       /\ \A k \in 1..Len(verification_results) :
            verification_results[k].status = "MISMATCH" =>
              \E j \in 1..Len(mismatch_report) :
                 mismatch_report[j] = ClaimedLine(verification_results[k])
       /\ \A j \in 1..Len(mismatch_report) :
            \E k \in 1..Len(verification_results) :
               /\ verification_results[k].status = "MISMATCH"
               /\ mismatch_report[j] = ClaimedLine(verification_results[k])

\* C18 witness: x_portal_user holds 500 rows on the source and 480 on the
\* destination and is reported as a MISMATCH of -20.
C18_Witness ==
  /\ VerificationEnded
  /\ hist.faults = 0
  /\ \E k \in 1..Len(verification_results) :
       /\ verification_results[k].table = "x_portal_user"
       /\ verification_results[k].status = "MISMATCH"
       /\ verification_results[k].mysql_count = 500
       /\ verification_results[k].postgres_count = 480
  /\ \E j \in 1..Len(mismatch_report) :
       /\ mismatch_report[j].table = "x_portal_user"
       /\ mismatch_report[j].diff_str = <<"-", 20>>

(* ------------------------- claims: orchestration ----------------------- *)

\* The reset pass has walked its whole list, or is disabled.
ResetFinished ==
  env.truncate_before_insert => ti = Len(tables_to_truncate) + 1

\* Where main is while tables are transferred.
TransferPcs == {"migrate_read", "migrate_batch", "migrate_commit"}

\* What holds in every state of a run: the phases come in their order and
\* the end leaves no opened connection open.
OrchestrationInvariant ==
  /\ pc = "order" => (ResetFinished /\ hist.call.state = "none" /\ tbl = 1)
  /\ pc \in TransferPcs =>
       /\ ResetFinished
       /\ hist.path = "migrate"
       /\ tbl <= Len(ordered_tables)
       /\ si = 1
  /\ pc \in {"migrate_batch", "migrate_commit"} =>
       hist.call.table = ordered_tables[tbl]
  /\ pc \in {"sequences", "close"} =>
       /\ ResetFinished
       /\ hist.path = "migrate"
       /\ tbl = Len(ordered_tables) + 1
       /\ pending = committed
  /\ pc = "done" =>
       /\ mysql_conn \in {"none", "closed"}
       /\ conn \in {"none", "closed"}
       /\ (hist.resetSteps > 0 \/ hist.path # "none") =>
             (mysql_conn = "closed" /\ conn = "closed")

\* What holds of every step of a run: the tables are handed over one by
\* one in the resolved order, each transfer ended (committed or abandoned,
\* nothing of it pending) when the next begins, and the reset pass and the
\* order do not move once transfers have begun.
OrchestrationStep ==
  /\ (pc \in TransferPcs /\ tbl' # tbl) =>
       /\ tbl' = tbl + 1
       /\ hist'.call.table = ordered_tables[tbl]
       /\ hist'.call.state \in {"returned", "error", "empty"}
       /\ pending' = committed'
  /\ pc \in TransferPcs \cup {"sequences", "close"} =>
       (ordered_tables' = ordered_tables /\ ti' = ti)
  /\ pc \in {"sequences", "close"} => (tbl' = tbl /\ committed' = committed)

\* C19: in every run the reset pass, when enabled, is over before the
\* order is resolved, the order is resolved before any transfer, the tables
\* are transferred one at a time in that order, the sequences are reconciled
\* only after the last transfer (and no row moves any more), and at the end
\* every connection that was opened is closed, after a completed run and
\* after a fatal error alike.
C19_OrchestrationOrder ==
  []OrchestrationInvariant /\ [][OrchestrationStep]_vars

\* C19 witness: a run whose reset pass lost the connection and could not
\* reconnect ended fatally, with both connections closed.
C19_Witness ==
  /\ pc = "done"
  /\ exit_code = 1
  /\ hist.resetAborted
  /\ mysql_conn = "closed"
  /\ conn = "closed"

(* --------------------------- claims: skip set -------------------------- *)

\* C20: a relation named in skip_tables is left out of all processing: the
\* reset pass sends no TRUNCATE for it, the resolved order does not hold it
\* and the verification pass has no result for it, also when it is a table
\* of PRIORITY_TABLES_ORDER (no statement of the run failed).
C20_SkipSetExcluded ==
  hist.faults = 0 =>
    \A t \in env.skip_tables :
      /\ ~Contains(hist.truncLog, t)
      /\ ~Contains(ordered_tables, t)
      /\ \A k \in 1..Len(verification_results) : verification_results[k].table # t

(* --------------------- claims: the existence filter -------------------- *)

\* The source tables the destination does not have, outside skip_tables.
MissingOnDestination ==
  {t \in Range(env.mysql_tables) :
     env.pg_kind[t] = "absent" /\ ~InSkipTables(t)}

\* C21: skip_missing_tables governs the existence filter of the migration
\* order: a source table absent from the destination is dropped from the
\* order when the option is enabled and kept when it is disabled (no probe
\* failed).
C21_FilterGovernedByOption ==
  (hist.path = "migrate" /\ hist.faults = 0) =>
    \A t \in MissingOnDestination :
      IF env.skip_missing_tables THEN ~Contains(ordered_tables, t)
      ELSE Contains(ordered_tables, t)

(* ---------------------- claims: fallback continuation ------------------ *)

\* The destination has a reason of its own to refuse the row: a constraint
\* the row violates, or a unique key and the row already there.
RefusedByDestination(r) ==
  \/ r \in env.bad_rows[hist.call.table]
  \/ /\ hist.call.table \in env.keyed
     /\ hist.call.before[hist.call.table][r] > 0

\* C22: a row that fails on its own in the row-by-row fallback does not
\* abort the rest: when the call reaches its final commit every source row
\* was attempted, and the only rows that failed in a fallback are rows the
\* destination refuses (nothing else went wrong and the call started in a
\* usable transaction).
C22_FallbackContinues ==
  (/\ CallCommitted
   /\ hist.call.faults = 0
   /\ hist.call.txnAtStart # "failed") =>
    /\ hist.call.attempted = Range(SourceRows(hist.call.table))
    /\ \A r \in hist.call.rowFailed : RefusedByDestination(r)

(* ----------------------- claims: progress durability ------------------- *)

\* A step of the run after its reset pass: a transfer step, a sequence
\* update or the end of main.
AfterResetStep == pc \in TransferPcs \cup {"sequences", "close", "fatal"}

\* C23: once migrate_table_data has committed a table, no later step of the
\* run (a batch rollback, the rollback of a later table's call, a sequence
\* update and its rollback, a fatal end) removes a row of it from the
\* destination.
C23_CommittedTablesStay ==
  [][AfterResetStep =>
       \A t \in hist.loaded : \A r \in RowIds :
          committed'[t][r] >= committed[t][r]]_vars

\* C23 witness: x_portal_user was committed with its three rows, a later
\* table's call failed and was rolled back, and the run ended with the three
\* rows in place.
C23_Witness ==
  /\ pc = "done"
  /\ hist.run = 1
  /\ "x_portal_user" \in hist.loaded
  /\ hist.call.state = "error"
  /\ hist.call.table # "x_portal_user"
  /\ hist.faults = 1
  /\ RowCount(committed, "x_portal_user") = batch_size + 1

(* ---------------------- claims: ordering determinism ------------------- *)

\* The one sequence a set of names has under the ordering rule: its
\* priority tables as the priority list has them, then the others ascending.
CanonicalOrder(S) ==
  LET InS(n) == n \in S
      rest == {n \in S : ~InPriorityList(n)}
  IN  SelectSeq(PRIORITY_TABLES_ORDER, InS)
        \o (CHOOSE q \in Perms(rest) :
              \A i, j \in 1..Len(q) : i < j => StrLess(q[i], q[j]))

\* The candidates of the verification: the tables of either side that
\* skip_tables does not name and that are no view on the destination.
VerifyCandidates ==
  {n \in Range(env.mysql_tables) \cup PostgresBaseTables :
     n \notin env.skip_tables /\ env.pg_kind[n] # "view"}

\* C24: the resolved order is a function of the set of names that pass the
\* filter, whatever order the source listed them in (ascending or
\* descending) and whatever order the set union was enumerated in; when no
\* probe errored that set is fixed by the candidates, the skip set and the
\* destination, so equal inputs give equal sequences.
C24_OrderIndependentOfEnumeration ==
  /\ hist.path \in {"migrate", "verify"} =>
       ordered_tables = CanonicalOrder(Range(ordered_tables))
  /\ (hist.path = "migrate" /\ ~hist.probeFault) =>
       ordered_tables = CanonicalOrder(Eligible)
  /\ (hist.path = "verify" /\ ~hist.probeFault) =>
       ordered_tables = CanonicalOrder(VerifyCandidates)

\* C24 witness: the source listed x_trx_log, x_portal_user_role and
\* x_portal_user in descending order and the order resolved is the one of
\* the ascending listing.
C24_Witness ==
  /\ hist.path = "migrate"
  /\ ~hist.probeFault
  /\ env.mysql_tables = <<"x_trx_log", "x_portal_user_role", "x_portal_user">>
  /\ ordered_tables = <<"x_portal_user", "x_portal_user_role", "x_trx_log">>

(* ------------------- claims: enforcement is restored ------------------- *)

\* C25: at the end of every table's step of the reset pass, however the
\* step ended, the session that the following steps use has
\* session_replication_role = 'origin': no later clear, transfer or sequence
\* update runs with referential-integrity enforcement left disabled.
C25_EnforcementRestored ==
  conn \in {"open", "broken"} => session_replication_role = "origin"

\* C25 witness: a TRUNCATE was sent with enforcement disabled and raised,
\* the step's failure was recovered, and the pass returned a session with
\* enforcement on.
C25_Witness ==
  /\ pc = "order"
  /\ conn = "open"
  /\ hist.resetFaults = 1
  /\ Len(hist.truncLog) > hist.truncated_count
  /\ session_replication_role = "origin"

(* ------------------ claims: the connection after reset ----------------- *)

\* C26: whenever truncate_postgres_tables returns, the connection it hands
\* to main, on which the ordering's probes run next, is open and its
\* transaction is not in the failed state.
C26_ReturnedConnectionUsable ==
  (pc = "order" /\ hist.resetSteps > 0) =>
    (conn = "open" /\ txn # "failed")

(* ---------------------- claims: conversion's frame --------------------- *)

\* C27: convert_data_types emits one row per source row, in the source's
\* order and of the source row's length; a column with no rule for the table
\* keeps its value, a listed column whose transform raises for the value
\* keeps it too, and any other listed column holds the transform's value.
C27_ConversionPreserves ==
  pc = "converted" =>
    /\ Len(converted_rows) = Len(hist.rows)
    /\ \A k \in 1..Len(hist.rows) :
         /\ Len(converted_rows[k]) = Len(hist.rows[k])
         /\ \A i \in 1..Len(env.columns) :
              converted_rows[k][i] =
                IF ~ListedForBoolean(i) \/ hist.rows[k][i] \in env.raises
                  THEN hist.rows[k][i]
                ELSE IF hist.rows[k][i] = "1" THEN "True"
                ELSE IF hist.rows[k][i] = "0" THEN "False"
                ELSE "None"

\* C27 witness: under a transform that raises for the string '1', the row
\* ('1', 1) of x_policy was emitted with its first value kept and its
\* second converted, after the row (0, 2).
C27_Witness ==
  /\ pc = "converted"
  /\ env.raises = {"'1'"}
  /\ env.table_name = "x_policy"
  /\ env.columns = <<"is_enabled", "is_audit_enabled">>
  /\ hist.rows = << <<"0", "2">>, <<"'1'", "1">> >>
  /\ converted_rows = << <<"False", "None">>, <<"'1'", "True">> >>

(* ----------------------- claims: sequence monotonicity ----------------- *)

\* C28 as claimed: no step of update_sequences lowers a sequence.
C28_NeverLowersSequence ==
  [][pc = "sequences" => \A t \in Names : seqVal'[t] >= seqVal[t]]_vars

\* C28 amended: after a binding's step that ran without a failure on a
\* usable connection, the sequence of an existing binding is at least the
\* table's maximum id; a step lowers no sequence but its own binding's, and
\* that one only to exactly the table's maximum id, when it was ahead of it.
C28_SequenceSetToMaxId ==
  [][pc = "sequences" =>
       /\ (CleanBindingStep /\ BindingExists(BindingTable)) =>
             \A N \in RowIds :
                HasMaxId(BindingTable, N) => seqVal'[BindingTable] >= N
       /\ \A t \in Names :
            seqVal'[t] < seqVal[t] =>
              (t = BindingTable /\ HasMaxId(t, seqVal'[t]))]_vars

\* C28 witness: the sequence of x_portal_user stood ahead of the ids 1 and 3
\* the table holds, and the call has set it to 3.
C28_Witness ==
  /\ pc = "close"
  /\ hist.faults = 0
  /\ hist.seqStart # "failed"
  /\ hist.seqBefore["x_portal_user"] = MaxRows + 1
  /\ {r \in RowIds : committed["x_portal_user"][r] > 0} = {1, 3}
  /\ seqVal["x_portal_user"] = 3

(* ------------------------ claims: failed row counts -------------------- *)

\* The results in which a row count could not be read.
UnreadCounts ==
  {k \in 1..Len(verification_results) :
     \/ verification_results[k].mysql_count = -1
     \/ verification_results[k].postgres_count = -1}

\* C29: a table whose row count could not be read on either side or on both
\* (the sentinel -1) is never reported MATCH, and a verification with such
\* a table never exits 0.
C29_FailedCountNeverMatches ==
  /\ \A k \in UnreadCounts : verification_results[k].status # "MATCH"
  /\ (VerificationEnded /\ UnreadCounts # {}) => exit_code # 0

====
